---- MODULE Spec2Model ----
(***************************************************************************)
(* A model of the in-process message bus of src/src/index.ts: a bus holds  *)
(* topics, a topic holds a (possibly bounded) message log and a list of    *)
(* subscriptions, and callbacks are invoked synchronously by subscribe     *)
(* (backlog replay) and by sendMessage (fan-out).                          *)
(*                                                                         *)
(* Values that may be null or undefined in the source are modelled as      *)
(* sequences of length 0 (null / undefined) or 1 (the value).  A message   *)
(* is its id and payload; its timestamp is read by no operation.  A        *)
(* handle (a topic, a subscription) is the position of the record in the   *)
(* list that owns it: records are never removed or reordered.              *)
(***************************************************************************)
EXTENDS Integers, Sequences, FiniteSets, TLC

\* ------------------------------------------------------------------ bounds

\* sendMessage calls per topic
MaxSends == 3
\* subscription records per topic
MaxSubs == 2
\* caller-supplied subscription ids are drawn from 0..MaxSubId
MaxSubId == 1
\* the largest maxLogSize argument passed to getTopic
MaxLogArg == 1
MaxGetBus == 3

TopicNames == {"a"}
BusTopicNames == {"a", "b"}
\* a payload is opaque: no operation reads it
Payloads == {"x"}
Callbacks == {"cb1", "cb2"}

\* Callbacks that call the bus on the topic they are subscribed to:
\*   cbSubscribe    calls subscribe(topic, cb1)
\*   cbResubscribe  calls subscribe(topic, cb1, {id: 1})
\*   cbUnsubscribe  calls unsubscribe on the subscription of id 1, if there is one
\*   cbSend         calls sendMessage(topic, payload) when given the message of id 0
ReentrantCallbacks == {"cbSubscribe", "cbResubscribe", "cbUnsubscribe", "cbSend"}

\* ------------------------------------------------------------ nullable values

Null == <<>>
Undefined == <<>>
Some(x) == <<x>>

\* JavaScript truthiness of a `number | null` value: null and 0 are falsy.
TruthyNumber(v) == v # Null /\ v[1] # 0

\* JavaScript truthiness of a `boolean | undefined` value.
TruthyBoolean(v) == v # Undefined /\ v[1]

IGNORE == "ignore"
LATEST == "latest"
FULL == "full"
BacklogStrategy == {IGNORE, LATEST, FULL}

\* ------------------------------------------------------------------- inputs

MaxLogSizeArgs == {Undefined} \cup {Some(k) : k \in -1..MaxLogArg}

\* The arguments that lead to different topics: -1 and 0 create the topic
\* that an omitted argument creates.
\* Every integer getTopic accepts, negative ones below -1 included.
AnyLogSizeArgs == {Undefined} \cup {Some(k) : k \in (-2 - MaxLogArg)..MaxLogArg}

DistinctLogSizeArgs == {Undefined} \cup {Some(k) : k \in 1..MaxLogArg}

SubsciptionOptions ==
    {Undefined} \cup
    {Some([id |-> i, backlogStrategy |-> b, startActive |-> a]) :
        i \in {Undefined} \cup {Some(n) : n \in 0..MaxSubId},
        b \in {Undefined} \cup {Some(s) : s \in BacklogStrategy},
        a \in {Undefined} \cup {Some(v) : v \in BOOLEAN}}

\* -------------------------------------------------------------------- state

VARIABLES
    bus,        \* bus.topics: the sequence of Topic records
    requested,  \* history: requested[t] is the maxLogSize argument topic t was created with
    sent,       \* history: sent[t] is the sequence of payloads sent on topic t
    delivered,  \* history: delivered[t][id] is the sequence of message ids passed to
                \* the callbacks registered under subscription id `id` of topic t
    last,       \* history: the last top-level call, what it returned and the
                \* callback invocations it made, in order
    window,     \* the global `window`: Undefined where the environment has none,
                \* else Some([bus |-> ...]) with the handle stored in window.bus
    buses,      \* the Bus objects getBus has created; a handle is a position here
    handles,    \* history: the handles the getBus calls returned, in call order
    sending     \* the sendMessage call in progress, when its steps are taken one
                \* by one: Undefined, or Some([topic |-> t, message |-> m])

vars == <<bus, requested, sent, delivered, last, window, buses, handles, sending>>

\* What the calls on one bus leave alone.
registry == <<window, buses, handles>>

\* -------------------------------------------------------------------- getBus

\* getBus without the assignment to window.bus.
GetBusResultNotStored(w, heap) ==
    IF w # Undefined /\ w[1].bus # Undefined
    THEN [window |-> w, buses |-> heap, ret |-> w[1].bus[1]]
    ELSE [window |-> w, buses |-> Append(heap, [topics |-> <<>>]), ret |-> Len(heap) + 1]

\* getBus(): window and the Bus objects afterwards, and the handle returned.
GetBusResult(w, heap) ==
    IF w # Undefined /\ w[1].bus # Undefined
    THEN [window |-> w, buses |-> heap, ret |-> w[1].bus[1]]
    ELSE [window |-> IF w # Undefined THEN Some([bus |-> Some(Len(heap) + 1)]) ELSE w,
          buses |-> Append(heap, [topics |-> <<>>]),
          ret |-> Len(heap) + 1]

\* ------------------------------------------------------------------ getTopic

\* bus.topics.find(topic => topic.name === name), as a position (0: not found)
RECURSIVE FindTopicFrom(_, _, _)
FindTopicFrom(topics, name, i) ==
    IF i > Len(topics) THEN 0
    ELSE IF topics[i].name = name THEN i
    ELSE FindTopicFrom(topics, name, i + 1)

\* FindTopic looking at the first topic of the bus only.
FindTopicFirstOnly(topics, name) ==
    IF Len(topics) > 0 /\ topics[1].name = name THEN 1 ELSE 0

FindTopic(topics, name) == FindTopicFrom(topics, name, 1)

\* `maxLogSize || -1`: undefined and 0 are falsy
EffectiveMaxLogSize(arg) ==
    IF arg = Undefined \/ arg[1] = 0 THEN -1 ELSE arg[1]

NewTopic(name, arg) ==
    [name |-> name,
     messages |-> <<>>,
     subscriptions |-> <<>>,
     maxLogSize |-> EffectiveMaxLogSize(arg),
     nextMessageID |-> 0,
     nextSubId |-> 0]

\* ----------------------------------------------------------------- subscribe

BacklogStrategyOf(options) ==
    IF options # Undefined /\ options[1].backlogStrategy # Undefined
    THEN options[1].backlogStrategy[1]
    ELSE FULL

\* `options && options.startActive ? options.startActive : true`
StartActiveOf(options) ==
    IF options # Undefined /\ TruthyBoolean(options[1].startActive)
    THEN options[1].startActive[1]
    ELSE TRUE

EffectiveId(topic, options) ==
    IF options # Undefined /\ options[1].id # Undefined
    THEN options[1].id[1]
    ELSE topic.nextSubId

LastMessage(messages) ==
    IF Len(messages) > 0 THEN Some(messages[Len(messages)]) ELSE Null

LastMessageId(messages) ==
    IF LastMessage(messages) # Null THEN Some(LastMessage(messages)[1].id) ELSE Null

\* topic.subscriptions.find(subscription => subscription.id === id), as a
\* position (0: not found)
RECURSIVE FindSubscriptionFrom(_, _, _)
FindSubscriptionFrom(subscriptions, id, i) ==
    IF i > Len(subscriptions) THEN 0
    ELSE IF subscriptions[i].id = id THEN i
    ELSE FindSubscriptionFrom(subscriptions, id, i + 1)

FindSubscription(subscriptions, id) == FindSubscriptionFrom(subscriptions, id, 1)

\* messages.findIndex(message => message.id === lastMessageId), 0-based, -1
\* when no message has that id
RECURSIVE FindIndexFrom(_, _, _)
FindIndexFrom(messages, lastMessageId, i) ==
    IF i > Len(messages) THEN -1
    ELSE IF Some(messages[i].id) = lastMessageId THEN i - 1
    ELSE FindIndexFrom(messages, lastMessageId, i + 1)

FindIndex(messages, lastMessageId) == FindIndexFrom(messages, lastMessageId, 1)

\* messages.filter((_, idx) => idx > lastSeenMessageIndex), idx 0-based
BacklogAfter(messages, lastSeenMessageIndex) ==
    SubSeq(messages, lastSeenMessageIndex + 2, Len(messages))

\* ResumeBacklog with `full` replaying the whole log, whatever the cursor.
ResumeBacklogWholeLog(existing, messages, backlogStrategy, startActive) ==
    IF /\ TruthyNumber(existing.lastMessageId)
       /\ existing.lastMessageId # LastMessageId(messages)
       /\ LastMessage(messages) # Null
       /\ startActive
    THEN CASE backlogStrategy = FULL -> messages
           [] backlogStrategy = LATEST -> <<LastMessage(messages)[1]>>
           [] OTHER -> <<>>
    ELSE <<>>

\* ResumeBacklog with `ignore` falling through to `latest`.
ResumeBacklogFallThrough(existing, messages, backlogStrategy, startActive) ==
    IF /\ TruthyNumber(existing.lastMessageId)
       /\ existing.lastMessageId # LastMessageId(messages)
       /\ LastMessage(messages) # Null
       /\ startActive
    THEN CASE backlogStrategy = FULL ->
                BacklogAfter(messages, FindIndex(messages, existing.lastMessageId))
           [] OTHER -> <<LastMessage(messages)[1]>>
    ELSE <<>>

\* The messages the update path passes to the new callback, in order.
ResumeBacklog(existing, messages, backlogStrategy, startActive) ==
    IF /\ TruthyNumber(existing.lastMessageId)
       /\ existing.lastMessageId # LastMessageId(messages)
       /\ LastMessage(messages) # Null
       /\ startActive
    THEN CASE backlogStrategy = FULL ->
                BacklogAfter(messages, FindIndex(messages, existing.lastMessageId))
           [] backlogStrategy = LATEST -> <<LastMessage(messages)[1]>>
           [] OTHER -> <<>>
    ELSE <<>>

\* FreshBacklog with `full` replaying the log newest first.
FreshBacklogNewestFirst(messages, backlogStrategy) ==
    CASE backlogStrategy = FULL ->
            [i \in 1..Len(messages) |-> messages[Len(messages) + 1 - i]]
      [] backlogStrategy = LATEST ->
            IF LastMessage(messages) # Null THEN <<LastMessage(messages)[1]>> ELSE <<>>
      [] OTHER -> <<>>

\* FreshBacklog with `latest` passing the first message of the log.
FreshBacklogOldest(messages, backlogStrategy) ==
    CASE backlogStrategy = FULL -> messages
      [] backlogStrategy = LATEST ->
            IF LastMessage(messages) # Null THEN <<messages[1]>> ELSE <<>>
      [] OTHER -> <<>>

\* The messages the creation path passes to the callback, in order.
FreshBacklog(messages, backlogStrategy) ==
    CASE backlogStrategy = FULL -> messages
      [] backlogStrategy = LATEST ->
            IF LastMessage(messages) # Null THEN <<LastMessage(messages)[1]>> ELSE <<>>
      [] OTHER -> <<>>

\* UpdatedSubscription without the write of the cursor.
UpdatedSubscriptionKeepsCursor(existing, callback, messages, startActive) ==
    [existing EXCEPT !.callback = callback,
                     !.active = startActive]

UpdatedSubscription(existing, callback, messages, startActive) ==
    [existing EXCEPT !.callback = callback,
                     !.lastMessageId = LastMessageId(messages),
                     !.active = startActive]

NewSubscription(id, topic, callback, startActive) ==
    [id |-> id,
     topic |-> topic.name,
     callback |-> callback,
     lastMessageId |-> LastMessageId(topic.messages),
     active |-> startActive]

\* UpdateExisting storing the updated record as a new one, at the end of the list.
UpdateExistingAsNew(topic, maybeExisting, callback, startActive) ==
    [topic EXCEPT
        !.subscriptions =
            Append(@, UpdatedSubscription(@[maybeExisting], callback,
                                          topic.messages, startActive)),
        !.nextSubId = @ + 1]

\* The update path's writes: the existing record is changed in place.
UpdateExisting(topic, maybeExisting, callback, startActive) ==
    [topic EXCEPT !.subscriptions[maybeExisting] =
        UpdatedSubscription(@, callback, topic.messages, startActive)]

\* The creation path's writes: a new record is pushed and nextSubId incremented.
AddSubscription(topic, id, callback, startActive) ==
    [topic EXCEPT
        !.subscriptions = Append(@, NewSubscription(id, topic, callback, startActive)),
        !.nextSubId = @ + 1]

\* One callback invocation: the subscription id it was made for, the function
\* called and the message passed.
Call(id, callback, message) == [sub |-> id, callback |-> callback, message |-> message]

CallsFor(id, callback, messages) ==
    [i \in 1..Len(messages) |-> Call(id, callback, messages[i])]

\* subscribe(topic, callback, options): the topic afterwards, the position of
\* the returned subscription record and the callback invocations made.
SubscribeResult(topic, callback, options) ==
    LET backlogStrategy == BacklogStrategyOf(options)
        startActive == StartActiveOf(options)
        id == EffectiveId(topic, options)
        maybeExisting == FindSubscription(topic.subscriptions, id)
    IN  IF maybeExisting # 0
        THEN [topic |-> UpdateExisting(topic, maybeExisting, callback, startActive),
              ret |-> maybeExisting,
              calls |-> CallsFor(id, callback,
                            ResumeBacklog(topic.subscriptions[maybeExisting],
                                          topic.messages, backlogStrategy, startActive))]
        ELSE [topic |-> AddSubscription(topic, id, callback, startActive),
              ret |-> Len(topic.subscriptions) + 1,
              calls |-> CallsFor(id, callback,
                            FreshBacklog(topic.messages, backlogStrategy))]

\* --------------------------------------------------------------- sendMessage

RECURSIVE ShiftWhileLonger(_, _)
ShiftWhileLonger(messages, maxLogSize) ==
    IF Len(messages) > maxLogSize
    THEN ShiftWhileLonger(Tail(messages), maxLogSize)
    ELSE messages

CleanOldMessages(topic) ==
    IF topic.maxLogSize = -1
    THEN topic
    ELSE [topic EXCEPT !.messages = ShiftWhileLonger(@, topic.maxLogSize)]

\* The test of the while loop of cleanOldMessages, reached only past the
\* early return for maxLogSize -1.
EvictionDue(topic) ==
    topic.maxLogSize # -1 /\ Len(topic.messages) > topic.maxLogSize

\* messages.shift(): removes the first element; leaves an empty array empty.
Shift(messages) == IF messages = <<>> THEN <<>> ELSE Tail(messages)

NewMessage(topic, payload) == [id |-> topic.nextMessageID, payload |-> payload]

\* AppendMessage without the increment of the id counter.
AppendMessageSameId(topic, message) ==
    [topic EXCEPT !.messages = Append(@, message)]

AppendMessage(topic, message) ==
    [topic EXCEPT !.messages = Append(@, message),
                  !.nextMessageID = @ + 1]

\* Deliver advancing the cursor of inactive subscriptions too.
DeliverCursorAlways(subscription, message) ==
    [subscription EXCEPT !.lastMessageId = Some(message.id)]

\* Deliver without the write of the cursor.
DeliverKeepsCursor(subscription, message) == subscription

\* One step of the forEach over topic.subscriptions.
Deliver(subscription, message) ==
    IF subscription.active
    THEN [subscription EXCEPT !.lastMessageId = Some(message.id)]
    ELSE subscription

\* FanOutCalls visiting the subscriptions last to first.
RECURSIVE FanOutCallsBackwards(_, _, _)
FanOutCallsBackwards(subscriptions, message, i) ==
    IF i > Len(subscriptions) THEN <<>>
    ELSE FanOutCallsBackwards(subscriptions, message, i + 1)
         \o (IF subscriptions[i].active
             THEN <<Call(subscriptions[i].id, subscriptions[i].callback, message)>>
             ELSE <<>>)

\* The callback invocations of the forEach over topic.subscriptions, in order.
RECURSIVE FanOutCalls(_, _, _)
FanOutCalls(subscriptions, message, i) ==
    IF i > Len(subscriptions) THEN <<>>
    ELSE (IF subscriptions[i].active
          THEN <<Call(subscriptions[i].id, subscriptions[i].callback, message)>>
          ELSE <<>>)
         \o FanOutCalls(subscriptions, message, i + 1)

FanOut(subscriptions, message) ==
    [i \in 1..Len(subscriptions) |-> Deliver(subscriptions[i], message)]

SendMessageResult(topic, payload) ==
    LET message == NewMessage(topic, payload)
        stored == CleanOldMessages(AppendMessage(topic, message))
    IN  [topic |-> [stored EXCEPT !.subscriptions = FanOut(@, message)],
         calls |-> FanOutCalls(stored.subscriptions, message, 1)]

\* --------------------------------------------------------------- unsubscribe

Deactivated(subscription) == [subscription EXCEPT !.active = FALSE]

\* ------------------------------------------- calls made from within callbacks

\* One callback invocation of a run in which callbacks call the bus: as Call,
\* with the loop that made it ("fanout": the forEach of sendMessage, at
\* position pos of topic.subscriptions; "replay": a backlog replay of subscribe).
Invocation(id, callback, message, via, pos) ==
    [sub |-> id, callback |-> callback, message |-> message, via |-> via, pos |-> pos]

\* A run is [topic |-> the topic as it is now, calls |-> the invocations so far].
Invoked(w, id, callback, message, via, pos) ==
    [w EXCEPT !.calls = Append(@, Invocation(id, callback, message, via, pos))]

RECURSIVE RunCallback(_, _, _)
RECURSIVE RunReplay(_, _, _, _, _)
RECURSIVE RunForEachMessage(_, _, _, _, _)
RECURSIVE RunSubscribe(_, _, _)
RECURSIVE RunFanOut(_, _, _, _)
RECURSIVE RunSendMessage(_, _)

\* The body of `callback`, given `message`.
RunCallback(w, callback, message) ==
    CASE callback = "cbSubscribe" -> RunSubscribe(w, "cb1", Undefined)
      [] callback = "cbResubscribe" ->
            RunSubscribe(w, "cb1", Some([id |-> Some(1), backlogStrategy |-> Undefined,
                                         startActive |-> Undefined]))
      [] callback = "cbUnsubscribe" ->
            IF FindSubscription(w.topic.subscriptions, 1) # 0
            THEN [w EXCEPT !.topic.subscriptions[FindSubscription(w.topic.subscriptions, 1)] =
                                Deactivated(@)]
            ELSE w
      [] callback = "cbSend" ->
            IF message.id = 0 THEN RunSendMessage(w, CHOOSE payload \in Payloads : TRUE)
            ELSE w
      [] OTHER -> w

\* backlog.forEach(message => callback(message)) over an array built before
\* the first invocation (the result of filter, or the one newest message)
RunReplay(w, id, callback, backlog, i) ==
    IF i > Len(backlog) THEN w
    ELSE RunReplay(RunCallback(Invoked(w, id, callback, backlog[i], "replay", 0),
                               callback, backlog[i]),
                   id, callback, backlog, i + 1)

\* messages.forEach(callback) over the log itself: the indices below the
\* length n the log had at the start, each read when it is reached and
\* skipped when the log has become shorter
RunForEachMessage(w, id, callback, i, n) ==
    IF i > n THEN w
    ELSE IF i > Len(w.topic.messages)
         THEN RunForEachMessage(w, id, callback, i + 1, n)
         ELSE RunForEachMessage(
                RunCallback(Invoked(w, id, callback, w.topic.messages[i], "replay", 0),
                            callback, w.topic.messages[i]),
                id, callback, i + 1, n)

\* subscribe(topic, callback, options)
RunSubscribe(w, callback, options) ==
    LET topic == w.topic
        backlogStrategy == BacklogStrategyOf(options)
        startActive == StartActiveOf(options)
        id == EffectiveId(topic, options)
        maybeExisting == FindSubscription(topic.subscriptions, id)
    IN  IF maybeExisting # 0
        THEN [RunReplay(w, id, callback,
                        ResumeBacklog(topic.subscriptions[maybeExisting], topic.messages,
                                      backlogStrategy, startActive), 1)
                EXCEPT !.topic.subscriptions[maybeExisting] =
                            UpdatedSubscription(@, callback, topic.messages, startActive)]
        ELSE [(IF backlogStrategy = FULL
               THEN RunForEachMessage(w, id, callback, 1, Len(topic.messages))
               ELSE RunReplay(w, id, callback,
                              FreshBacklog(topic.messages, backlogStrategy), 1))
                EXCEPT !.topic.subscriptions =
                            Append(@, NewSubscription(id, topic, callback, startActive)),
                       !.topic.nextSubId = @ + 1]

\* topic.subscriptions.forEach(...) of sendMessage: the positions up to the
\* length n the list had at the start, each record read when it is reached
RunFanOut(w, message, i, n) ==
    IF i > n THEN w
    ELSE IF w.topic.subscriptions[i].active
         THEN RunFanOut(
                [RunCallback(Invoked(w, w.topic.subscriptions[i].id,
                                     w.topic.subscriptions[i].callback, message, "fanout", i),
                             w.topic.subscriptions[i].callback, message)
                    EXCEPT !.topic.subscriptions[i].lastMessageId = Some(message.id)],
                message, i + 1, n)
         ELSE RunFanOut(w, message, i + 1, n)

\* sendMessage(topic, payload)
RunSendMessage(w, payload) ==
    RunFanOut([w EXCEPT !.topic = CleanOldMessages(
                                    AppendMessage(w.topic, NewMessage(w.topic, payload)))],
              NewMessage(w.topic, payload), 1, Len(w.topic.subscriptions))

\* ------------------------------------------------------------------ history

NoCall ==
    [op |-> "none", name |-> "", arg |-> Undefined, topic |-> 0, ret |-> 0,
     given |-> Undefined, id |-> Undefined,
     callback |-> "none", strategy |-> "none", startActive |-> Undefined, existed |-> FALSE,
     prevCursor |-> Null, calls |-> <<>>]

HistoryOf(d, id) == IF id \in DOMAIN d THEN d[id] ELSE <<>>

\* d with the message ids of `calls` appended to the histories of the
\* subscription ids they were delivered to
RECURSIVE Record(_, _)
Record(d, calls) ==
    IF calls = <<>> THEN d
    ELSE LET c == Head(calls)
         IN  Record([i \in DOMAIN d \cup {c.sub} |->
                        IF i = c.sub THEN Append(HistoryOf(d, i), c.message.id)
                        ELSE d[i]],
                    Tail(calls))

\* -------------------------------------------------------------------- actions

Init ==
    /\ bus = <<>>
    /\ requested = <<>>
    /\ sent = <<>>
    /\ delivered = <<>>
    /\ last = NoCall
    /\ window = Undefined
    /\ buses = <<>>
    /\ handles = <<>>
    /\ sending = Undefined

\* getTopic(bus, name, maxLogSize)
GetTopicCall(name, arg) ==
    LET maybeExisting == FindTopic(bus, name)
    IN  /\ IF maybeExisting # 0
           THEN UNCHANGED <<bus, requested, sent, delivered>>
           ELSE /\ bus' = Append(bus, NewTopic(name, arg))
                /\ requested' = Append(requested, arg)
                /\ sent' = Append(sent, <<>>)
                /\ delivered' = Append(delivered, <<>>)
        /\ UNCHANGED <<registry, sending>>

\* subscribe(bus.topics[t], callback, options)
SubscribeCall(t, callback, options) ==
    LET topic == bus[t]
        maybeExisting == FindSubscription(topic.subscriptions, EffectiveId(topic, options))
    IN  /\ maybeExisting = 0 => Len(topic.subscriptions) < MaxSubs
        /\ bus' = [bus EXCEPT ![t] = SubscribeResult(topic, callback, options).topic]
        /\ UNCHANGED <<requested, sent, registry, sending>>

\* sendMessage(bus.topics[t], payload)
SendMessageCall(t, payload) ==
    /\ bus[t].nextMessageID < MaxSends
    /\ bus' = [bus EXCEPT ![t] = SendMessageResult(bus[t], payload).topic]
    /\ sent' = [sent EXCEPT ![t] = Append(@, payload)]
    /\ UNCHANGED <<requested, registry, sending>>

\* unsubscribe(bus.topics[t].subscriptions[s])
UnsubscribeCall(t, s) ==
    /\ bus' = [bus EXCEPT ![t].subscriptions[s] = Deactivated(@)]
    /\ UNCHANGED <<requested, sent, delivered, registry, sending>>

\* What `last` records of a subscribe call.
SubscribeRecord(t, callback, options) ==
    LET topic == bus[t]
        id == EffectiveId(topic, options)
        maybeExisting == FindSubscription(topic.subscriptions, id)
        r == SubscribeResult(topic, callback, options)
    IN  [op |-> "subscribe", topic |-> t, ret |-> r.ret,
         given |-> IF options = Undefined THEN Undefined ELSE options[1].id,
         id |-> Some(id),
         callback |-> callback,
         strategy |-> BacklogStrategyOf(options),
         startActive |-> IF options = Undefined THEN Undefined
                         ELSE options[1].startActive,
         existed |-> (maybeExisting # 0),
         prevCursor |-> IF maybeExisting # 0
                        THEN topic.subscriptions[maybeExisting].lastMessageId
                        ELSE Null,
         calls |-> r.calls]

\* ---- Spec: the calls, with `last` recording each call in full

GetTopic(name, arg) ==
    /\ GetTopicCall(name, arg)
    /\ last' = [NoCall EXCEPT !.op = "getTopic", !.name = name, !.arg = arg,
                              !.existed = (FindTopic(bus, name) # 0),
                              !.ret = IF FindTopic(bus, name) # 0
                                      THEN FindTopic(bus, name)
                                      ELSE Len(bus) + 1]

Subscribe(t, callback, options) ==
    /\ SubscribeCall(t, callback, options)
    /\ last' = SubscribeRecord(t, callback, options)
    /\ UNCHANGED delivered

SendMessage(t, payload) ==
    /\ SendMessageCall(t, payload)
    /\ last' = [NoCall EXCEPT !.op = "sendMessage", !.topic = t,
                              !.calls = SendMessageResult(bus[t], payload).calls]
    /\ UNCHANGED delivered

Unsubscribe(t, s) ==
    /\ UnsubscribeCall(t, s)
    /\ last' = [NoCall EXCEPT !.op = "unsubscribe", !.topic = t, !.ret = s,
                              !.id = Some(bus[t].subscriptions[s].id)]

Next ==
    \/ \E name \in TopicNames, arg \in MaxLogSizeArgs : GetTopic(name, arg)
    \/ \E t \in 1..Len(bus), callback \in Callbacks, options \in SubsciptionOptions :
            Subscribe(t, callback, options)
    \/ \E t \in 1..Len(bus), payload \in Payloads : SendMessage(t, payload)
    \/ \E t \in 1..Len(bus) : \E s \in 1..Len(bus[t].subscriptions) : Unsubscribe(t, s)

Spec == Init /\ [][Next]_vars

\* ---- SpecDelivered: the same calls, with `delivered` accumulating every
\* callback invocation of the run and `last` recording only which call was made

GetTopicDelivered(name, arg) ==
    /\ GetTopicCall(name, arg)
    /\ last' = [NoCall EXCEPT !.op = "getTopic"]

SubscribeDelivered(t, callback, options) ==
    /\ SubscribeCall(t, callback, options)
    /\ delivered' = [delivered EXCEPT ![t] =
                        Record(@, SubscribeResult(bus[t], callback, options).calls)]
    /\ last' = [NoCall EXCEPT !.op = "subscribe", !.topic = t,
                              !.id = Some(EffectiveId(bus[t], options)),
                              !.existed = SubscribeRecord(t, callback, options).existed,
                              !.calls = SubscribeResult(bus[t], callback, options).calls]

SendMessageDelivered(t, payload) ==
    /\ SendMessageCall(t, payload)
    /\ delivered' = [delivered EXCEPT ![t] =
                        Record(@, SendMessageResult(bus[t], payload).calls)]
    /\ last' = [NoCall EXCEPT !.op = "sendMessage", !.topic = t]

UnsubscribeDelivered(t, s) ==
    /\ UnsubscribeCall(t, s)
    /\ last' = [NoCall EXCEPT !.op = "unsubscribe", !.topic = t]

NextDelivered ==
    \/ \E name \in TopicNames, arg \in DistinctLogSizeArgs : GetTopicDelivered(name, arg)
    \/ \E t \in 1..Len(bus), callback \in Callbacks, options \in SubsciptionOptions :
            SubscribeDelivered(t, callback, options)
    \/ \E t \in 1..Len(bus), payload \in Payloads : SendMessageDelivered(t, payload)
    \/ \E t \in 1..Len(bus) : \E s \in 1..Len(bus[t].subscriptions) :
            UnsubscribeDelivered(t, s)

SpecDelivered == Init /\ [][NextDelivered]_vars

\* ---- SpecBus: a bus of several topics; every subscribe call passes the same
\* callback and no options

NextBus ==
    \/ \E name \in BusTopicNames, arg \in MaxLogSizeArgs : GetTopic(name, arg)
    \/ \E t \in 1..Len(bus) : Subscribe(t, "cb1", Undefined)
    \/ \E t \in 1..Len(bus), payload \in Payloads : SendMessage(t, payload)

SpecBus == Init /\ [][NextBus]_vars

\* ---- SpecGetBus: getBus calls and getTopic calls on the buses they returned,
\* in an environment with a global `window` or without one

InitGetBus ==
    /\ bus = <<>>
    /\ requested = <<>>
    /\ sent = <<>>
    /\ delivered = <<>>
    /\ last = NoCall
    /\ window \in {Undefined, Some([bus |-> Undefined])}
    /\ buses = <<>>
    /\ handles = <<>>
    /\ sending = Undefined

\* getBus()
GetBus ==
    /\ Len(handles) < MaxGetBus
    /\ window' = GetBusResult(window, buses).window
    /\ buses' = GetBusResult(window, buses).buses
    /\ handles' = Append(handles, GetBusResult(window, buses).ret)
    /\ last' = [NoCall EXCEPT !.op = "getBus", !.ret = GetBusResult(window, buses).ret]
    /\ UNCHANGED <<bus, requested, sent, delivered, sending>>

\* getTopic(b, name, maxLogSize) on the bus b that the i-th getBus call returned
GetTopicOfBus(i, name, arg) ==
    LET b == handles[i]
        maybeExisting == FindTopic(buses[b].topics, name)
    IN  /\ buses' = IF maybeExisting # 0 THEN buses
                    ELSE [buses EXCEPT ![b].topics = Append(@, NewTopic(name, arg))]
        /\ last' = [NoCall EXCEPT !.op = "getTopic", !.name = name,
                                  !.existed = (maybeExisting # 0)]
        /\ UNCHANGED <<bus, requested, sent, delivered, window, handles, sending>>

NextGetBus ==
    \/ GetBus
    \/ \E i \in 1..Len(handles), name \in BusTopicNames, arg \in DistinctLogSizeArgs :
            GetTopicOfBus(i, name, arg)

SpecGetBus == InitGetBus /\ [][NextGetBus]_vars

\* ---- SpecEvict: sendMessage taken step by step, one iteration of the loop of
\* cleanOldMessages at a time, on topics created with any integer maxLogSize;
\* no other call runs while a sendMessage call is in progress

GetTopicIdle(name, arg) ==
    /\ sending = Undefined
    /\ GetTopic(name, arg)

SubscribeIdle(t, callback) ==
    /\ sending = Undefined
    /\ Subscribe(t, callback, Undefined)

\* sendMessage up to the call of cleanOldMessages
BeginSend(t, payload) ==
    /\ sending = Undefined
    /\ bus[t].nextMessageID < MaxSends
    /\ bus' = [bus EXCEPT ![t] = AppendMessage(@, NewMessage(bus[t], payload))]
    /\ sent' = [sent EXCEPT ![t] = Append(@, payload)]
    /\ sending' = Some([topic |-> t, message |-> NewMessage(bus[t], payload)])
    /\ last' = [NoCall EXCEPT !.op = "sendMessage", !.topic = t]
    /\ UNCHANGED <<requested, delivered, registry>>

\* one iteration of the while loop of cleanOldMessages
ShiftOldest ==
    /\ sending # Undefined
    /\ EvictionDue(bus[sending[1].topic])
    /\ bus' = [bus EXCEPT ![sending[1].topic].messages = Shift(@)]
    /\ UNCHANGED <<requested, sent, delivered, last, registry, sending>>

\* cleanOldMessages returns; sendMessage fans the message out and returns
EndSend ==
    /\ sending # Undefined
    /\ ~EvictionDue(bus[sending[1].topic])
    /\ bus' = [bus EXCEPT ![sending[1].topic].subscriptions = FanOut(@, sending[1].message)]
    /\ sending' = Undefined
    /\ last' = [last EXCEPT !.calls = FanOutCalls(bus[sending[1].topic].subscriptions,
                                                  sending[1].message, 1)]
    /\ UNCHANGED <<requested, sent, delivered, registry>>

NextEvict ==
    \/ \E name \in TopicNames, arg \in AnyLogSizeArgs : GetTopicIdle(name, arg)
    \/ \E t \in 1..Len(bus), callback \in Callbacks : SubscribeIdle(t, callback)
    \/ \E t \in 1..Len(bus), payload \in Payloads : BeginSend(t, payload)
    \/ ShiftOldest
    \/ EndSend

SpecEvict == Init /\ [][NextEvict]_vars

\* ---- SpecReentrant: the calls with callbacks that call the bus themselves;
\* `last.calls` holds the invocations of the last call, nested ones included,
\* and `delivered` every invocation of the run.  A callback that calls the bus
\* is subscribed with strategy ignore, so that the fan-out of sendMessage is
\* the only loop that invokes it.

IgnoreOptions ==
    {Some([id |-> i, backlogStrategy |-> Some(IGNORE), startActive |-> Undefined]) :
        i \in {Undefined} \cup {Some(n) : n \in 0..MaxSubId}}

PlainOptions ==
    {Undefined} \cup IgnoreOptions \cup
    {Some([id |-> Some(n), backlogStrategy |-> Undefined, startActive |-> Undefined]) :
        n \in 0..MaxSubId}

\* What a call and the calls nested in it leave on the topic and in the histories.
Ran(t, w) ==
    /\ Len(w.topic.subscriptions) <= MaxSubs
    /\ w.topic.nextMessageID <= MaxSends
    /\ bus' = [bus EXCEPT ![t] = w.topic]
    /\ sent' = [sent EXCEPT ![t] =
                    @ \o [i \in 1..(w.topic.nextMessageID - bus[t].nextMessageID) |->
                            CHOOSE payload \in Payloads : TRUE]]
    /\ delivered' = [delivered EXCEPT ![t] = Record(@, w.calls)]
    /\ UNCHANGED <<requested, registry, sending>>

SubscribeReentrant(t, callback, options) ==
    /\ Ran(t, RunSubscribe([topic |-> bus[t], calls |-> <<>>], callback, options))
    /\ last' = [NoCall EXCEPT
                    !.op = "subscribe", !.topic = t,
                    !.calls = RunSubscribe([topic |-> bus[t], calls |-> <<>>],
                                           callback, options).calls]

SendMessageReentrant(t, payload) ==
    /\ bus[t].nextMessageID < MaxSends
    /\ Ran(t, RunSendMessage([topic |-> bus[t], calls |-> <<>>], payload))
    /\ last' = [NoCall EXCEPT
                    !.op = "sendMessage", !.topic = t,
                    !.calls = RunSendMessage([topic |-> bus[t], calls |-> <<>>],
                                             payload).calls]

NextReentrant ==
    \/ \E name \in TopicNames, arg \in DistinctLogSizeArgs : GetTopicDelivered(name, arg)
    \/ \E t \in 1..Len(bus), options \in PlainOptions :
            SubscribeReentrant(t, "cb1", options)
    \/ \E t \in 1..Len(bus), callback \in ReentrantCallbacks, options \in IgnoreOptions :
            SubscribeReentrant(t, callback, options)
    \/ \E t \in 1..Len(bus), payload \in Payloads : SendMessageReentrant(t, payload)
    \/ \E t \in 1..Len(bus) : \E s \in 1..Len(bus[t].subscriptions) :
            UnsubscribeDelivered(t, s)

SpecReentrant == Init /\ [][NextReentrant]_vars

\* ------------------------------------------------------------------- claims

Topics == 1..Len(bus)
Subs(t) == 1..Len(bus[t].subscriptions)
Min(a, b) == IF a < b THEN a ELSE b

\* The topic and the subscription record the last subscribe call returned.
LastTopic == bus[last.topic]
LastSub == bus[last.topic].subscriptions[last.ret]

\* C1: on a topic created with maxLogSize omitted or -1, after n sendMessage
\* calls interleaved with any subscribe and unsubscribe calls, the log holds
\* exactly n messages, with ids 0..n-1 in log order (and the payloads sent).
C1_UnboundedLogKeepsAll ==
    \A t \in Topics :
        requested[t] \in {Undefined, Some(-1)} =>
            /\ Len(bus[t].messages) = Len(sent[t])
            /\ \A i \in 1..Len(sent[t]) :
                    bus[t].messages[i] = [id |-> i - 1, payload |-> sent[t][i]]

C1_Witness ==
    \E t \in Topics :
        /\ requested[t] = Undefined
        /\ Len(sent[t]) >= 3
        /\ \E s \in Subs(t) : ~bus[t].subscriptions[s].active
        /\ last.op = "subscribe"

\* C2: on a topic created through getTopic with maxLogSize = k, k >= 0, the
\* log length is min(total sends, k) and the log holds the k most recently
\* sent messages with their original ids, oldest first.
C2_BoundedLogKeepsNewest ==
    \A t \in Topics :
        (requested[t] # Undefined /\ requested[t][1] >= 0) =>
            LET k == requested[t][1]
                n == Len(sent[t])
                kept == Min(n, k)
            IN  /\ Len(bus[t].messages) = kept
                /\ \A i \in 1..Len(bus[t].messages) :
                        bus[t].messages[i] =
                            [id |-> n - kept + i - 1, payload |-> sent[t][n - kept + i]]

\* C3: a subscribe call whose effective id is not registered yet, with
\* strategy full (explicit or default), invokes the supplied callback exactly
\* once per retained message, oldest first, and makes no other invocation.
C3_FreshFullReplaysLog ==
    (last.op = "subscribe" /\ ~last.existed /\ last.strategy = FULL) =>
        last.calls = [i \in 1..Len(LastTopic.messages) |->
                        Call(last.id[1], last.callback, LastTopic.messages[i])]

C3_Witness ==
    /\ last.op = "subscribe" /\ ~last.existed /\ last.strategy = FULL
    /\ Len(LastTopic.messages) >= 2
    /\ Len(last.calls) >= 2

\* C4: a subscribe call whose effective id is not registered yet, with
\* strategy latest, invokes the callback exactly once, with the newest
\* retained message, if the log is non-empty, and zero times if it is empty.
C4_FreshLatestReplaysNewest ==
    (last.op = "subscribe" /\ ~last.existed /\ last.strategy = LATEST) =>
        IF Len(LastTopic.messages) > 0
        THEN last.calls = <<Call(last.id[1], last.callback,
                                 LastTopic.messages[Len(LastTopic.messages)])>>
        ELSE last.calls = <<>>

C4_Witness ==
    /\ last.op = "subscribe" /\ ~last.existed /\ last.strategy = LATEST
    /\ Len(LastTopic.messages) >= 2
    /\ Len(last.calls) = 1

\* C5: a subscribe call with strategy ignore invokes no callback, whatever
\* the log holds, on the creation path and on the update path.
C5_IgnoreReplaysNothing ==
    (last.op = "subscribe" /\ last.strategy = IGNORE) => last.calls = <<>>

\* an update-path call with a lagging, truthy cursor: the case in which the
\* other strategies replay
C5_Witness ==
    /\ last.op = "subscribe" /\ last.strategy = IGNORE /\ last.existed
    /\ TruthyNumber(last.prevCursor)
    /\ last.prevCursor # LastMessageId(LastTopic.messages)
    /\ LastSub.active

\* The messages with an id greater than the cursor, a null cursor being older
\* than every message.
NewerThan(messages, cursor) ==
    SelectSeq(messages, LAMBDA m : cursor = Null \/ m.id > cursor[1])

\* C6: re-subscribing an existing id with strategy full and startActive
\* true, when the log is non-empty and the stored cursor differs from the
\* newest message id, invokes the new callback exactly once for each
\* retained message whose id is greater than the stored cursor, oldest
\* first, a null cursor counting as older than every message.
C6_ResumeFullReplaysMissed ==
    (/\ last.op = "subscribe" /\ last.existed /\ last.strategy = FULL
     /\ last.startActive # Some(FALSE)
     /\ Len(LastTopic.messages) > 0
     /\ last.prevCursor # LastMessageId(LastTopic.messages)) =>
        last.calls = CallsFor(last.id[1], last.callback,
                              NewerThan(LastTopic.messages, last.prevCursor))

\* No message id occurs twice in the deliveries made under one subscription id.
NoDuplicateDelivery ==
    \A t \in Topics : \A id \in DOMAIN delivered[t] :
        \A i, j \in 1..Len(delivered[t][id]) :
            i # j => delivered[t][id][i] # delivered[t][id][j]

\* A step that re-subscribes an id whose cursor is the newest message id
\* delivers nothing.
UpToDateResubscribeIsSilent ==
    \A t \in Topics : \A s \in Subs(t) :
        (/\ last'.op = "subscribe" /\ last'.existed /\ last'.topic = t
         /\ last'.id = Some(bus[t].subscriptions[s].id)
         /\ bus[t].subscriptions[s].lastMessageId = LastMessageId(bus[t].messages)) =>
            /\ last'.calls = <<>>
            /\ delivered'[t] = delivered[t]

\* C7: over any run of top-level calls, no message id is passed twice to the
\* callbacks registered under one subscription id, and re-subscribing an id
\* whose cursor is the newest message id (no message was published since)
\* invokes no callback.
C7_NoRedelivery == [][NoDuplicateDelivery' /\ UpToDateResubscribeIsSilent]_vars

\* a re-subscribe that replayed missed messages to an id that had already
\* received others
C7_Witness ==
    /\ last.op = "subscribe" /\ last.existed
    /\ Len(last.calls) >= 1
    /\ Len(HistoryOf(delivered[last.topic], last.id[1])) > Len(last.calls)

\* unsubscribe leaves s inactive with its cursor, and every call other than a
\* subscribe of s's id leaves an inactive s inactive, with its cursor, and
\* invokes nothing for it.
C8_Step ==
    \A t \in Topics : \A s \in Subs(t) :
        LET sub == bus[t].subscriptions[s]
            after == bus'[t].subscriptions[s]
        IN  /\ (last'.op = "unsubscribe" /\ last'.topic = t /\ last'.ret = s) =>
                    /\ ~after.active
                    /\ after.lastMessageId = sub.lastMessageId
            /\ (/\ ~sub.active
                /\ ~(last'.op = "subscribe" /\ last'.topic = t /\ last'.id = Some(sub.id))) =>
                    /\ ~after.active
                    /\ after.lastMessageId = sub.lastMessageId
                    /\ \A i \in 1..Len(last'.calls) : last'.calls[i].sub # sub.id

\* C8: from unsubscribe(s) until s's id is subscribed again, no sendMessage
\* call invokes a callback for s and s's cursor keeps the value it had when
\* unsubscribe was called, however many messages are sent (every step of the
\* run satisfies C8_Step).
C8_UnsubscribedGetsNothing == [][C8_Step]_vars

\* a send that reached another subscription while an unsubscribed one stayed
\* behind the log
C8_Witness ==
    /\ last.op = "sendMessage"
    /\ Len(last.calls) >= 1
    /\ \E s \in Subs(last.topic) :
            /\ ~LastTopic.subscriptions[s].active
            /\ LastTopic.subscriptions[s].lastMessageId # Null
            /\ LastTopic.subscriptions[s].lastMessageId[1] + 2 <= LastTopic.nextMessageID - 1

\* C9: the active flag of the subscription subscribe returns equals the
\* startActive option (true when omitted), on the creation path and on the
\* update path.
C9_ActiveIsStartActive ==
    last.op = "subscribe" =>
        LastSub.active = (IF last.startActive = Undefined THEN TRUE
                          ELSE last.startActive[1])

\* What a subscribe call on the update path leaves alone.
C10_Step ==
    (last'.op = "subscribe" /\ last'.existed) =>
        LET t == last'.topic
            before == bus[t].subscriptions
            after == bus'[t].subscriptions
        IN  /\ last'.ret \in 1..Len(before)
            /\ before[last'.ret].id = last'.id[1]
            /\ Len(after) = Len(before)
            /\ bus'[t].nextSubId = bus[t].nextSubId
            /\ \A s \in 1..Len(before) :
                    /\ after[s].id = before[s].id
                    /\ after[s].topic = before[s].topic
                    /\ s # last'.ret => after[s] = before[s]

\* C10: re-subscribing an id that is registered returns the record already
\* registered under it; the subscription list keeps its length and order,
\* nextSubId is not incremented, the record keeps its id and topic name, and
\* no other record changes.
C10_ResubscribeInPlace == [][C10_Step]_vars

\* a re-subscribe of the first of two records that changed its callback
C10_Witness ==
    /\ last.op = "subscribe" /\ last.existed
    /\ last.ret = 1
    /\ Len(LastTopic.subscriptions) = 2
    /\ LastTopic.nextSubId = 2
    /\ LastSub.callback # LastTopic.subscriptions[2].callback

\* What a sendMessage call does to the topic and which callbacks it invokes.
C11_Step ==
    last'.op = "sendMessage" =>
        LET t == last'.topic
            before == bus[t].subscriptions
            after == bus'[t].subscriptions
            message == [id |-> bus[t].nextMessageID,
                        payload |-> sent'[t][Len(sent'[t])]]
            active == SelectSeq(before, LAMBDA sub : sub.active)
        IN  /\ Len(bus'[t].messages) > 0
            /\ bus'[t].messages[Len(bus'[t].messages)] = message
            /\ last'.calls = [i \in 1..Len(active) |->
                                Call(active[i].id, active[i].callback, message)]
            /\ Len(after) = Len(before)
            /\ \A s \in 1..Len(before) :
                    IF before[s].active
                    THEN after[s] = [before[s] EXCEPT !.lastMessageId = Some(message.id)]
                    ELSE after[s] = before[s]

\* C11: each sendMessage call, after appending the new message and evicting,
\* invokes the callback of every active subscription exactly once with the
\* new message, in registration order, and sets the cursor of each to the new
\* message's id; inactive subscriptions are not invoked and keep their cursor.
C11_SendFansOutInOrder == [][C11_Step]_vars

\* a send that invoked two subscriptions holding different callbacks
C11_Witness ==
    /\ last.op = "sendMessage"
    /\ Len(last.calls) = 2
    /\ last.calls[1].callback # last.calls[2].callback
    /\ last.calls[1].sub = LastTopic.subscriptions[1].id
    /\ last.calls[1].message.id >= 1

\* The cursor refers to a message that the log no longer holds.
Evicted(cursor, messages) ==
    /\ cursor # Null
    /\ \A i \in 1..Len(messages) : messages[i].id # cursor[1]

\* C14: re-subscribing an existing id with strategy full and startActive true
\* on a bounded topic, when the message the stored cursor refers to has been
\* evicted, invokes the callback exactly once per retained message, oldest
\* first, for every evicted cursor value.
C14_EvictedCursorReplaysLog ==
    (/\ last.op = "subscribe" /\ last.existed /\ last.strategy = FULL
     /\ last.startActive # Some(FALSE)
     /\ LastTopic.maxLogSize # -1
     /\ Evicted(last.prevCursor, LastTopic.messages)) =>
        last.calls = CallsFor(last.id[1], last.callback, LastTopic.messages)

\* C15: after a subscribe call, on the update path with any strategy and
\* whether or not a replay occurred, and on the creation path, the cursor of
\* the subscription is the id of the newest message of the log, or null when
\* the log is empty.
C15_CursorIsNewestAfterSubscribe ==
    last.op = "subscribe" =>
        LastSub.lastMessageId = LastMessageId(LastTopic.messages)

\* an update-path call that replayed nothing and still moved the cursor
C15_Witness ==
    /\ last.op = "subscribe" /\ last.existed /\ last.strategy = IGNORE
    /\ last.prevCursor # LastMessageId(LastTopic.messages)
    /\ last.calls = <<>>
    /\ LastSub.lastMessageId = Some(2)

\* What a subscribe call given no id does.
C18_Step ==
    (last'.op = "subscribe" /\ last'.given = Undefined) =>
        LET t == last'.topic
            before == bus[t].subscriptions
            after == bus'[t].subscriptions
        IN  /\ ~last'.existed
            /\ Len(after) = Len(before) + 1
            /\ \A s \in 1..Len(before) :
                    /\ after[s] = before[s]
                    /\ before[s].id # after[Len(after)].id

\* C18: a subscribe call given no id always takes the creation path: it
\* appends a record whose id differs from every registered id and changes no
\* registered subscription, whatever mix of caller-supplied and auto-assigned
\* ids came before.
C18_NoIdAlwaysCreates == [][C18_Step]_vars

\* C19: between top-level calls, every active subscription has a cursor equal
\* to the id of the newest message ever sent on its topic (null if none was
\* sent); only inactive subscriptions lag behind.
C19_ActiveCursorIsNewest ==
    \A t \in Topics : \A s \in Subs(t) :
        bus[t].subscriptions[s].active =>
            bus[t].subscriptions[s].lastMessageId =
                (IF Len(sent[t]) = 0 THEN Null ELSE Some(Len(sent[t]) - 1))

\* an active subscription at the newest id beside an inactive one that lags
C19_Witness ==
    \E t \in Topics : \E s, u \in Subs(t) :
        /\ bus[t].subscriptions[s].active
        /\ bus[t].subscriptions[s].lastMessageId = Some(2)
        /\ ~bus[t].subscriptions[u].active
        /\ bus[t].subscriptions[u].lastMessageId # bus[t].subscriptions[s].lastMessageId
        /\ bus[t].maxLogSize # -1

\* The names of the topics of the bus are pairwise different.
UniqueNames ==
    \A t, u \in Topics : bus[t].name = bus[u].name => t = u

\* What a getTopic call does to the bus and which topic it returns.
C12_Step ==
    last'.op = "getTopic" =>
        /\ last'.ret \in 1..Len(bus')
        /\ bus'[last'.ret].name = last'.name
        /\ IF \E t \in Topics : bus[t].name = last'.name
           THEN bus' = bus
           ELSE bus' = Append(bus, [bus'[last'.ret] EXCEPT
                                        !.messages = <<>>, !.subscriptions = <<>>,
                                        !.nextMessageID = 0, !.nextSubId = 0])

\* C12: the first getTopic call for a name creates a topic with an empty log,
\* no subscriptions and both counters at 0; every later call with that name
\* returns that topic and leaves its log, subscriptions, counters and
\* maxLogSize as they were, whatever maxLogSize it passes; the bus never holds
\* two topics of one name.
C12_GetOrCreateByName == [][C12_Step /\ UniqueNames']_vars

\* a call that returned the second topic of the bus, already used, while
\* passing another maxLogSize than the one the topic has
C12_Witness ==
    /\ last.op = "getTopic" /\ last.existed /\ last.ret = 2
    /\ Len(bus[2].messages) = 2
    /\ Len(bus[2].subscriptions) = 1
    /\ bus[2].maxLogSize = -1
    /\ last.arg = Some(1)

\* C13: every getBus call of one process returns the same bus handle, so that
\* a topic created through the bus one call returned is found through the bus
\* any later call returned.
C13_OneBusPerProcess ==
    \A i, j \in 1..Len(handles) :
        /\ handles[i] = handles[j]
        /\ \A k \in 1..Len(buses[handles[i]].topics) :
                FindTopic(buses[handles[j]].topics, buses[handles[i]].topics[k].name) # 0

\* C13 as the code has it: where a global `window` exists, every getBus call
\* returns the handle stored in window.bus, and a topic created through one
\* call's bus is found through any other call's bus; where it does not, every
\* call returns a bus of its own.
C13_OneBusPerWindow ==
    \A i, j \in 1..Len(handles) :
        IF window # Undefined
        THEN /\ handles[i] = handles[j]
             /\ window[1].bus = Some(handles[i])
             /\ \A k \in 1..Len(buses[handles[i]].topics) :
                    FindTopic(buses[handles[j]].topics,
                              buses[handles[i]].topics[k].name) # 0
        ELSE i # j => handles[i] # handles[j]

\* with a `window`: a third getBus call, and a getTopic call on its bus that
\* found a topic which an earlier call's bus had created
C13_Witness ==
    /\ window # Undefined
    /\ Len(handles) = 3
    /\ Len(buses[handles[3]].topics) = 2
    /\ last.op = "getTopic" /\ last.existed

\* C20: sendMessage terminates on every topic getTopic can create, for every
\* integer maxLogSize, 0 and the values below -1 included: the eviction loop
\* ends and sendMessage returns.  An iteration of the loop changes nothing but
\* the log, which it shortens by one message, so the loop ends exactly when no
\* iteration is ever due on an empty log, where shift removes nothing and the
\* test of the loop holds again.
C20_EvictionLoopEnds ==
    (sending # Undefined /\ EvictionDue(bus[sending[1].topic])) =>
        bus[sending[1].topic].messages # <<>>

\* What a sendMessage call does when its callbacks subscribe, re-subscribe or
\* unsubscribe on the topic (and none of them sends).
C16_Step ==
    (/\ last'.op = "sendMessage"
     /\ bus'[last'.topic].nextMessageID = bus[last'.topic].nextMessageID + 1) =>
        LET before == bus[last'.topic].subscriptions
            calls == last'.calls
            fanout == SelectSeq(calls, LAMBDA c : c.via = "fanout")
            touched(names) == \E i \in 1..Len(calls) : calls[i].callback \in names
        IN  /\ \A i \in 1..Len(fanout) :
                    /\ fanout[i].pos \in 1..Len(before)
                    /\ fanout[i].sub = before[fanout[i].pos].id
                    /\ i < Len(fanout) => fanout[i].pos < fanout[i + 1].pos
            /\ \A p \in 1..Len(before) :
                    /\ (before[p].active /\ ~touched({"cbUnsubscribe"})) =>
                            \E i \in 1..Len(fanout) : fanout[i].pos = p
                    /\ (~before[p].active /\ ~touched({"cbSubscribe", "cbResubscribe"})) =>
                            \A i \in 1..Len(fanout) : fanout[i].pos # p
            /\ \A i, j \in 1..Len(calls) :
                    (calls[i].sub = calls[j].sub /\ i # j) =>
                        calls[i].message.id # calls[j].message.id

\* C16: when a callback invoked during the fan-out of a sendMessage call
\* itself subscribes, re-subscribes an existing id or unsubscribes on the same
\* topic, the subscriptions registered before the send are still visited once
\* each in registration order, a subscription is invoked by the fan-out only
\* if it is active when visited, and no subscription receives the message
\* being sent more than once in total, the replay of a nested subscribe
\* included.
C16_FanOutSurvivesNestedCalls == [][C16_Step]_vars

\* C17: the message ids passed to the callbacks registered under one
\* subscription id are strictly increasing over the whole run, for any
\* sequence of subscribe, unsubscribe and sendMessage calls, those sendMessage
\* calls included that a callback issues on the same topic during a fan-out.
C17_PublicationOrder ==
    \A t \in Topics : \A id \in DOMAIN delivered[t] :
        \A i, j \in 1..Len(delivered[t][id]) :
            i < j => delivered[t][id][i] < delivered[t][id][j]

====
